---- MODULE Spec2Model ----
(***************************************************************************)
(* Live-position coordination of the score-following backend:              *)
(*   - PositionManager (backend/app/position_manager.py): a dict held in   *)
(*     the attribute self.positions, rebound to a fresh dict by reset();   *)
(*   - run_score_following (backend/app/main.py): the alignment worker,    *)
(*     submitted to ThreadPoolExecutor(max_workers=1);                     *)
(*   - websocket_endpoint (backend/app/main.py): the per-connection        *)
(*     publisher loop running on the asyncio event loop.                   *)
(* Worker threads and the event loop interleave at the granularity of the  *)
(* steps below; dict objects live in a heap so that a reference loaded     *)
(* before reset() still names the old dict.                                *)
(***************************************************************************)
EXTENDS Integers, Sequences, FiniteSets, TLC

\* ---------------------------------------------------------------- bounds
NumConns == 2
NumSessions == 2
MaxBeat == 1

Conns == 1..NumConns
Sessions == 1..NumSessions
Beats == 0..MaxBeat

\* ------------------------------------------------------- program constants
\* a pool of two threads
MaxWorkers_two == 1 + 1

\* ThreadPoolExecutor(max_workers=1)
MaxWorkers == 1
\* self.positions.get(file_id, 0)
Default == 0

VARIABLES
    heap,          \* the live dict objects created by PositionManager, by reference
    positions,     \* position_manager.positions: reference of the bound dict
    queue,         \* executor work queue: submitted, not yet started workers
    wstate,        \* per launch (named by the launching connection): position in run_score_following
    wval,          \* worker local position_in_beat: between iterations, the value of
                   \* the last completed set_position; <<>> before the first yield
    wref,          \* dict reference loaded by the set_position in progress, else <<>>
    written,       \* per session: values stored by set_position(session, .)
    stream,        \* the launches inside "with AudioStream(...) as stream"
    acquired,      \* per launch: how many times it has entered AudioStream
    pc,            \* per connection: position in websocket_endpoint
    file_id,       \* per connection: data["file_id"], <<>> before receive_json
    client_state,  \* websocket.client_state
    cur,           \* local current_position: after a send, the beat_position just
                   \* sent; <<>> before the first get_position and after the return
    call,          \* the last direct call of a PositionManager method, with the
                   \* value get_position returned; <<>> if none
    snapshot,      \* reference returned by the last get_all_positions, <<>> if none
    expect         \* per key: value of the latest set_position not undone by
                   \* remove_position or reset, <<>> if none

vars == <<heap, positions, queue, wstate, wval, wref, written, stream, acquired,
          pc, file_id, client_state, cur, call, snapshot, expect>>

workerVars == <<wstate, wval, wref, written, stream, acquired>>
resVars == <<stream, acquired>>
storeVars == <<heap, positions>>
pubVars == <<pc, file_id, client_state, cur>>
apiVars == <<call, snapshot, expect>>

\* ------------------------------------------------------- PositionManager
EmptyDict == [k \in {} |-> Default]

\* d[k] = v
SetItem(d, k, v) == [x \in (DOMAIN d) \cup {k} |-> IF x = k THEN v ELSE d[x]]

\* the dict is built anew around the one item
set_position_rebuild(d, k, v) == [x \in {k} |-> v]

\* the first value stored under a key stays: d.setdefault(k, v)
set_position_setdefault(d, k, v) == SetItem(d, k, IF k \in DOMAIN d THEN d[k] ELSE v)

\* set_position, second half: self.positions was loaded as d
set_position(d, k, v) == SetItem(d, k, v)

\* a store that keeps one position for everybody: the key is ignored
get_position_anykey(d, k) ==
    IF DOMAIN d = {} THEN Default ELSE d[CHOOSE x \in DOMAIN d : TRUE]

\* d.get(k, 0)
get_position(d, k) == IF k \in DOMAIN d THEN d[k] ELSE Default

\* everything is deleted when the key is there
remove_position_clear(d, k) == IF k \in DOMAIN d THEN EmptyDict ELSE d

\* if k in d: del d[k]
remove_position(d, k) == [x \in (DOMAIN d) \ {k} |-> d[x]]

\* return self.positions
get_all_positions == positions

\* the dict currently bound to self.positions
Store == heap[positions]

\* a reference no live dict has
NewRef == CHOOSE r \in 1..(Cardinality(DOMAIN heap) + 1) : r \notin DOMAIN heap

\* references held by threads in the middle of set_position, w's excepted, and
\* by the caller of get_all_positions
HeldRefs(w) ==
    {wref[x][1] : x \in {y \in Conns \ {w} : wref[y] # <<>>}}
        \cup {snapshot[i] : i \in DOMAIN snapshot}

\* a dict nothing refers to is freed
Collect(h, live) == [r \in (DOMAIN h) \cap live |-> h[r]]

\* reset(): self.positions = {}
reset ==
    /\ positions' = NewRef
    /\ heap' = Collect([r \in (DOMAIN heap) \cup {NewRef} |->
                            IF r = NewRef THEN EmptyDict ELSE heap[r]],
                       {NewRef} \cup HeldRefs(0))

\* ---------------------------------------------------------------- executor
Executing == {w \in Conns : wstate[w] \in {"start", "iter", "set"}}
Terminated == {w \in Conns : wstate[w] \in {"done", "failed", "crashed"}}

\* run_score_following(file_id) called in the coroutine itself
ExecutionContext_inline == "eventloop"

\* loop.run_in_executor(executor, run_score_following, file_id)
ExecutionContext == "executor"

\* The event loop runs a coroutine step only when no blocking call occupies it.
EventLoopFree == ExecutionContext = "executor" \/ Executing = {}

TypeOK ==
    /\ positions \in DOMAIN heap
    /\ \A r \in DOMAIN heap : DOMAIN heap[r] \subseteq Sessions
    /\ \A r \in DOMAIN heap : \A k \in DOMAIN heap[r] : heap[r][k] \in Beats
    /\ \A w \in Conns : wstate[w] \in {"none", "queued", "start", "iter", "set",
                                       "done", "failed", "crashed"}
    /\ \A w \in Conns : wref[w] # <<>> => wref[w][1] \in DOMAIN heap
    /\ \A c \in Conns : pc[c] \in {"idle", "aborted", "loop", "send",
                                   "return", "exited", "returned"}

Init ==
    /\ heap = <<EmptyDict>>
    /\ positions = 1
    /\ queue = <<>>
    /\ wstate = [c \in Conns |-> "none"]
    /\ wval = [c \in Conns |-> <<>>]
    /\ wref = [c \in Conns |-> <<>>]
    /\ written = [s \in Sessions |-> {}]
    /\ stream = {}
    /\ acquired = [c \in Conns |-> 0]
    /\ pc = [c \in Conns |-> "idle"]
    /\ file_id = [c \in Conns |-> <<>>]
    /\ client_state = [c \in Conns |-> "CONNECTING"]
    /\ cur = [c \in Conns |-> <<>>]
    /\ call = <<>>
    /\ snapshot = <<>>
    /\ expect = [s \in Sessions |-> <<>>]

\* -------------------------------------------------------- websocket_endpoint
\* accept(), receive_json() yielding file_id s, then the unconditional launch
Connect(c, s) ==
    /\ pc[c] = "idle"
    /\ EventLoopFree
    /\ client_state' = [client_state EXCEPT ![c] = "CONNECTED"]
    /\ file_id' = [file_id EXCEPT ![c] = <<s>>]
    /\ queue' = Append(queue, c)
    /\ wstate' = [wstate EXCEPT ![c] = "queued"]
    /\ pc' = [pc EXCEPT ![c] = "loop"]
    /\ UNCHANGED <<apiVars, storeVars, wval, wref, written, resVars, cur>>

\* receive_json() raises (client gone, no file_id key): outside the try block
ReceiveFail(c) ==
    /\ pc[c] = "idle"
    /\ EventLoopFree
    /\ client_state' = [client_state EXCEPT ![c] = "DISCONNECTED"]
    /\ pc' = [pc EXCEPT ![c] = "aborted"]
    /\ UNCHANGED <<apiVars, storeVars, queue, workerVars, file_id, cur>>

\* the framework records the peer's close
Disconnect(c) ==
    /\ pc[c] \in {"loop", "send"}
    /\ client_state[c] = "CONNECTED"
    /\ client_state' = [client_state EXCEPT ![c] = "DISCONNECTED"]
    /\ UNCHANGED <<apiVars, storeVars, queue, workerVars, pc, file_id, cur>>

\* the position is read once, before the loop, and sent again and again
Poll_cached(c) ==
    /\ pc[c] = "loop"
    /\ EventLoopFree
    /\ client_state[c] = "CONNECTED"
    /\ cur' = [cur EXCEPT ![c] =
                   IF @ = <<>> THEN <<get_position(Store, file_id[c][1])>> ELSE @]
    /\ pc' = [pc EXCEPT ![c] = "send"]
    /\ UNCHANGED <<apiVars, storeVars, queue, workerVars, file_id, client_state>>

\* while client_state == CONNECTED: current_position = get_position(file_id)
Poll(c) ==
    /\ pc[c] = "loop"
    /\ EventLoopFree
    /\ client_state[c] = "CONNECTED"
    /\ cur' = [cur EXCEPT ![c] = <<get_position(Store, file_id[c][1])>>]
    /\ pc' = [pc EXCEPT ![c] = "send"]
    /\ UNCHANGED <<apiVars, storeVars, queue, workerVars, file_id, client_state>>

\* loop condition false: the function falls off its end, its locals are gone
LoopExit(c) ==
    /\ pc[c] = "loop"
    /\ EventLoopFree
    /\ client_state[c] # "CONNECTED"
    /\ pc' = [pc EXCEPT ![c] = "exited"]
    /\ cur' = [cur EXCEPT ![c] = <<>>]
    /\ UNCHANGED <<apiVars, storeVars, queue, workerVars, file_id, client_state>>

\* await send_json({"beat_position": current_position}); await sleep(0.1)
SendOk(c) ==
    /\ pc[c] = "send"
    /\ EventLoopFree
    /\ pc' = [pc EXCEPT ![c] = "loop"]
    /\ UNCHANGED <<apiVars, storeVars, queue, workerVars, file_id, client_state, cur>>

\* the except branch also cancels the connection's worker
SendFail_cancels(c) ==
    /\ pc[c] = "send"
    /\ EventLoopFree
    /\ reset
    /\ pc' = [pc EXCEPT ![c] = "return"]
    /\ cur' = [cur EXCEPT ![c] = <<>>]
    /\ wstate' = [wstate EXCEPT ![c] = IF c \in Terminated THEN @ ELSE "failed"]
    /\ queue' = SelectSeq(queue, LAMBDA x : x # c)
    /\ stream' = stream \ {c}
    /\ UNCHANGED <<apiVars, wval, wref, written, acquired, file_id, client_state>>

\* send_json raises; except Exception: position_manager.reset()
SendFail(c) ==
    /\ pc[c] = "send"
    /\ EventLoopFree
    /\ reset
    /\ pc' = [pc EXCEPT ![c] = "return"]
    /\ cur' = [cur EXCEPT ![c] = <<>>]
    /\ UNCHANGED <<apiVars, queue, workerVars, file_id, client_state>>

\* return
Return(c) ==
    /\ pc[c] = "return"
    /\ EventLoopFree
    /\ pc' = [pc EXCEPT ![c] = "returned"]
    /\ UNCHANGED <<apiVars, storeVars, queue, workerVars, file_id, client_state, cur>>

\* -------------------------------------------------------- run_score_following
\* the pool's thread takes the oldest submitted work item
Dispatch(w) ==
    /\ queue # <<>>
    /\ Head(queue) = w
    /\ Cardinality(Executing) < MaxWorkers
    /\ queue' = Tail(queue)
    /\ wstate' = [wstate EXCEPT ![w] = "start"]
    /\ UNCHANGED <<apiVars, storeVars, wval, wref, written, resVars, pubVars>>

\* find_midi_by_file_id .. load_score_midi, then entering AudioStream
WorkerSetup(w) ==
    /\ wstate[w] = "start"
    /\ \/ /\ wstate' = [wstate EXCEPT ![w] = "iter"]
          /\ stream' = stream \cup {w}
          /\ acquired' = [acquired EXCEPT ![w] = @ + 1]
       \/ /\ wstate' = [wstate EXCEPT ![w] = "crashed"]
          /\ UNCHANGED resVars
       \/ /\ wstate' = [wstate EXCEPT ![w] = "failed"]
          /\ UNCHANGED resVars
    /\ UNCHANGED <<apiVars, storeVars, queue, wval, wref, written, pubVars>>

\* otwd.run() yields a frame, convert_frame_to_beat gives b, set_position
\* loads self.positions
ProducerYield(w, b) ==
    /\ wstate[w] = "iter"
    /\ wval' = [wval EXCEPT ![w] = <<b>>]
    /\ wref' = [wref EXCEPT ![w] = <<positions>>]
    /\ wstate' = [wstate EXCEPT ![w] = "set"]
    /\ UNCHANGED <<apiVars, storeVars, queue, written, resVars, pubVars>>

\* set_position stores the item in the dict it loaded and drops the reference
StoreItem(w) ==
    /\ wstate[w] = "set"
    /\ heap' = Collect([heap EXCEPT ![wref[w][1]] =
                            set_position(@, file_id[w][1], wval[w][1])],
                       {positions} \cup HeldRefs(w))
    /\ wref' = [wref EXCEPT ![w] = <<>>]
    /\ written' = [written EXCEPT ![file_id[w][1]] = @ \cup {wval[w][1]}]
    /\ wstate' = [wstate EXCEPT ![w] = "iter"]
    /\ UNCHANGED <<apiVars, positions, queue, wval, resVars, pubVars>>

\* the flag is never cleared: the while loop goes round again
alignment_in_progress_retry == TRUE

\* alignment_in_progress = False, inside the while body after the with block
alignment_in_progress == FALSE

\* the producer is exhausted: the with block releases the stream, the flag is
\* assigned and the while condition is tested; another round enters AudioStream
ProducerStop(w) ==
    /\ wstate[w] = "iter"
    /\ IF alignment_in_progress
         THEN /\ acquired' = [acquired EXCEPT ![w] = @ + 1]
              /\ UNCHANGED <<wstate, stream>>
         ELSE /\ wstate' = [wstate EXCEPT ![w] = "done"]
              /\ stream' = stream \ {w}
              /\ UNCHANGED acquired
    /\ UNCHANGED <<apiVars, storeVars, queue, wval, wref, written, pubVars>>

\* an except branch that clears the store, as the endpoint's does
ProducerRaise_resets(w) ==
    /\ wstate[w] = "iter"
    /\ wstate' = [wstate EXCEPT ![w] = "failed"]
    /\ stream' = stream \ {w}
    /\ reset
    /\ UNCHANGED <<apiVars, queue, wval, wref, written, acquired, pubVars>>

\* the stream is opened and closed by hand, and the close is skipped on an error
ProducerRaise_leaks(w) ==
    /\ wstate[w] = "iter"
    /\ wstate' = [wstate EXCEPT ![w] = "failed"]
    /\ UNCHANGED <<apiVars, storeVars, queue, wval, wref, written, resVars, pubVars>>

\* the producer or the conversion raises: the stream is released, except Exception
ProducerRaise(w) ==
    /\ wstate[w] = "iter"
    /\ wstate' = [wstate EXCEPT ![w] = "failed"]
    /\ stream' = stream \ {w}
    /\ UNCHANGED <<apiVars, storeVars, queue, wval, wref, written, acquired, pubVars>>

\* ------------------------------------------------------------ specification
Publisher(c) ==
    \/ Poll(c)
    \/ LoopExit(c)
    \/ SendOk(c)
    \/ SendFail(c)
    \/ Return(c)

Worker(w) ==
    \/ WorkerSetup(w)
    \/ \E b \in Beats : ProducerYield(w, b)
    \/ StoreItem(w)
    \/ ProducerStop(w)
    \/ ProducerRaise(w)

Next ==
    \/ \E c \in Conns, s \in Sessions : Connect(c, s)
    \/ \E c \in Conns : ReceiveFail(c)
    \/ \E c \in Conns : Disconnect(c)
    \/ \E c \in Conns : Publisher(c)
    \/ \E w \in Conns : Dispatch(w)
    \/ \E w \in Conns : Worker(w)

Spec == Init /\ [][Next]_vars

\* The event loop keeps scheduling every ready coroutine and the pool's thread
\* keeps running; clients connect and disconnect as they please.
FairSpec ==
    /\ Spec
    /\ \A c \in Conns : WF_vars(Publisher(c))
    /\ \A w \in Conns : WF_vars(Dispatch(w))
    /\ \A w \in Conns : WF_vars(Worker(w))

\* The event loop keeps scheduling every ready coroutine; nothing is assumed
\* of the pool's thread, which may sit in a blocking call forever.
LoopFairSpec ==
    /\ Spec
    /\ \A c \in Conns : WF_vars(Publisher(c))


\* ------------------------------------- PositionManager called from one thread
mainVars == <<queue, workerVars, pubVars>>

\* position_manager.set_position(s, v)
ApiSet(s, v) ==
    /\ heap' = [heap EXCEPT ![positions] = set_position(@, s, v)]
    /\ call' = <<"set_position", s, v>>
    /\ expect' = [expect EXCEPT ![s] = <<v>>]
    /\ UNCHANGED <<positions, snapshot, mainVars>>

\* get_position through setdefault: the missing key is inserted
ApiGet_setdefault(s) ==
    /\ call' = <<"get_position", s, get_position(Store, s)>>
    /\ heap' = [heap EXCEPT ![positions] = set_position(@, s, get_position(@, s))]
    /\ UNCHANGED <<positions, snapshot, expect, mainVars>>

\* position_manager.get_position(s)
ApiGet(s) ==
    /\ call' = <<"get_position", s, get_position(Store, s)>>
    /\ UNCHANGED <<storeVars, snapshot, expect, mainVars>>

\* position_manager.remove_position(s)
ApiRemove(s) ==
    /\ heap' = [heap EXCEPT ![positions] = remove_position(@, s)]
    /\ call' = <<"remove_position", s>>
    /\ expect' = [expect EXCEPT ![s] = <<>>]
    /\ UNCHANGED <<positions, snapshot, mainVars>>

\* position_manager.get_all_positions(): the caller keeps what it returns and
\* lets go of what it kept before
ApiGetAll ==
    /\ snapshot' = <<get_all_positions>>
    /\ heap' = Collect(heap, {positions})
    /\ call' = <<"get_all_positions">>
    /\ UNCHANGED <<positions, expect, mainVars>>

\* position_manager.reset()
ApiReset ==
    /\ reset
    /\ call' = <<"reset">>
    /\ expect' = [s \in Sessions |-> <<>>]
    /\ UNCHANGED <<snapshot, mainVars>>

ApiNext ==
    \/ \E s \in Sessions, v \in Beats : ApiSet(s, v)
    \/ \E s \in Sessions : ApiGet(s)
    \/ \E s \in Sessions : ApiRemove(s)
    \/ ApiGetAll
    \/ ApiReset

\* any sequence of calls on a fresh PositionManager
ApiSpec == Init /\ [][ApiNext]_vars

\* ------------------------------- set_position called from interleaved threads
\* thread w writes under the key file_id[w]
WritersInit ==
    /\ heap = <<EmptyDict>>
    /\ positions = 1
    /\ queue = <<>>
    /\ wstate = [c \in Conns |-> "none"]
    /\ wval = [c \in Conns |-> <<>>]
    /\ wref = [c \in Conns |-> <<>>]
    /\ written = [s \in Sessions |-> {}]
    /\ stream = {}
    /\ acquired = [c \in Conns |-> 0]
    /\ pc = [c \in Conns |-> "idle"]
    /\ file_id \in [Conns -> {<<s>> : s \in Sessions}]
    /\ client_state = [c \in Conns |-> "CONNECTING"]
    /\ cur = [c \in Conns |-> <<>>]
    /\ call = <<>>
    /\ snapshot = <<>>
    /\ expect = [s \in Sessions |-> <<>>]

\* set_position(file_id, v), first half: self.positions is loaded
WriterLoad(w, v) ==
    /\ wref[w] = <<>>
    /\ wval' = [wval EXCEPT ![w] = <<v>>]
    /\ wref' = [wref EXCEPT ![w] = <<positions>>]
    /\ UNCHANGED <<storeVars, queue, wstate, written, resVars, pubVars, apiVars>>

\* second half: the item is stored in the dict that was loaded
WriterStore(w) ==
    /\ wref[w] # <<>>
    /\ heap' = [heap EXCEPT ![wref[w][1]] =
                    set_position(@, file_id[w][1], wval[w][1])]
    /\ wref' = [wref EXCEPT ![w] = <<>>]
    /\ written' = [written EXCEPT ![file_id[w][1]] = @ \cup {wval[w][1]}]
    /\ expect' = [expect EXCEPT ![file_id[w][1]] = wval[w]]
    /\ UNCHANGED <<positions, queue, wstate, wval, resVars, pubVars, call, snapshot>>

WritersNext ==
    \/ \E w \in Conns, v \in Beats : WriterLoad(w, v)
    \/ \E w \in Conns : WriterStore(w)

WritersSpec == WritersInit /\ [][WritersNext]_vars

\* ------------------------------------------------------------------ helpers
StoreNext == heap'[positions']

Ended(c) == pc[c] \in {"aborted", "exited", "return", "returned"}

\* connections whose endpoint got as far as the launch, for session s
ConnsOf(s) == {c \in Conns : file_id[c] = <<s>>}

\* run_score_following launches submitted for session s
Launches(s) == {w \in ConnsOf(s) : wstate[w] # "none"}

\* ------------------------------------------------------------------- claims

\* C1: every value a Publisher has read for sending, or has just sent, for its
\* session is the default 0 or a value some worker stored with
\* set_position(that session, .) before.
C1_OwnValuesOnly ==
    \A c \in Conns :
        cur[c] # <<>> => cur[c][1] \in {Default} \cup written[file_id[c][1]]

\* Two sessions tracked side by side hold different values; one connection has
\* just sent its session's non-default value, the other its own session's.
C1_Witness ==
    \E c, d \in Conns :
        /\ file_id[c] # <<>> /\ file_id[d] # <<>> /\ file_id[c] # file_id[d]
        /\ pc[c] = "loop" /\ cur[c] = <<1>>
        /\ pc[d] = "loop" /\ cur[d] = <<0>>
        /\ written[file_id[c][1]] = {1}
        /\ written[file_id[d][1]] = {0}

\* C3: when the endpoint returns after its loop has ended (loop condition
\* false, or a failed send), the store holds no entry for its session.
C3_NoEntryAtReturn ==
    [][\A c \in Conns :
          (pc[c] \in {"loop", "return"} /\ pc'[c] \in {"exited", "returned"})
              => file_id[c][1] \notin DOMAIN StoreNext]_vars

\* C4: the teardown after a failed send leaves get_position(T) as it was for
\* every session T other than the failing connection's.
C4_OtherSessionsKept ==
    [][\A c \in Conns :
          SendFail(c) =>
              \A t \in Sessions \ {file_id[c][1]} :
                  get_position(StoreNext, t) = get_position(Store, t)]_vars

\* C7: at most one run_score_following launch is ever submitted per session.
C7_AtMostOneLaunch ==
    \A s \in Sessions : Cardinality(Launches(s)) <= 1

\* C8: at most one worker executes per session at any time, and no step of a
\* Publisher adds or changes an item of any dict.
C8_SingleWriter ==
    /\ [](\A s \in Sessions : Cardinality(Executing \cap ConnsOf(s)) <= 1)
    /\ [][(\E c \in Conns : Publisher(c)) =>
             \A r \in DOMAIN heap' : \A k \in DOMAIN heap'[r] :
                 /\ r \in DOMAIN heap
                 /\ k \in DOMAIN heap[r]
                 /\ heap'[r][k] = heap[r][k]]_vars

\* Two launches for one session: one in the middle of set_position, the other
\* still queued behind it, while a Publisher of the session is about to send.
C8_Witness ==
    \E w, x \in Conns :
        /\ w # x /\ file_id[w] = file_id[x]
        /\ wstate[w] = "set" /\ wstate[x] = "queued"
        /\ pc[x] = "send"

\* C2: once a worker's producer has stopped after a last position v, every
\* connection of that session that is in its loop eventually sends v, unless
\* the connection ends.
C2_LastValueSent ==
    \A w \in Conns : \A c \in Conns : \A v \in Beats :
        [](( /\ wstate[w] = "done" /\ wval[w] = <<v>>
             /\ file_id[c] = file_id[w] /\ pc[c] \in {"loop", "send"} )
           => <>((pc[c] = "loop" /\ cur[c] = <<v>>) \/ Ended(c)))

\* a worker step that ends run_score_following by an exception
Raises(w) ==
    \/ ProducerRaise(w)
    \/ WorkerSetup(w) /\ wstate'[w] # "iter"

C6_PublishersNeverStall ==
    \A c \in Conns :
        /\ (pc[c] = "loop") ~> (pc[c] = "send" \/ Ended(c))
        /\ (pc[c] = "send") ~> (pc[c] = "loop" \/ Ended(c))

\* While its own worker is in the middle of set_position and a second worker
\* waits in the queue, the launching connection has sent a value that worker
\* stored and the other connection has sent too.
C6_Witness ==
    \E w, x \in Conns :
        /\ w # x
        /\ wstate[w] = "set" /\ wstate[x] = "queued"
        /\ pc[w] = "loop" /\ cur[w] = <<1>>
        /\ pc[x] = "loop" /\ cur[x] # <<>>

\* C9 as stated: the value sent is the session's entry at the moment of the
\* send (no set_position between the read and the send).
C9_NoSupersededSend ==
    [][\A c \in Conns :
          SendOk(c) => cur[c][1] = get_position(Store, file_id[c][1])]_vars

\* C9 amended: each iteration reads the session's entry anew (0 if absent),
\* and the value sent is the value of that read.
C9_SendsValueRead ==
    [][\A c \in Conns :
          /\ (pc[c] = "loop" /\ pc'[c] = "send")
                 => cur'[c] = <<get_position(Store, file_id[c][1])>>
          /\ (pc[c] = "send" /\ pc'[c] = "loop") => cur'[c] = cur[c]]_vars

\* A value was read, and the worker has stored another one before the send.
C9_Witness ==
    \E c \in Conns :
        /\ pc[c] = "send"
        /\ cur[c][1] # get_position(Store, file_id[c][1])
        /\ cur[c][1] \in written[file_id[c][1]]
        /\ file_id[c][1] \in DOMAIN Store

\* every launch for s has terminated and every connection for s has returned
SessionOver(s) ==
    /\ Launches(s) # {}
    /\ Launches(s) \subseteq Terminated
    /\ \A c \in ConnsOf(s) : pc[c] \in {"exited", "returned"}

\* C10: once a session's workers have terminated and its connections have
\* closed, its entry eventually is, and stays, absent.
C10_EntriesRemoved ==
    \A s \in Sessions : [](SessionOver(s) => <>[](s \notin DOMAIN Store))

\* C20: a set_position that completes, whatever reset() fell between its load
\* of self.positions and its store, is visible to the next get_position.
C20_SetAfterResetVisible ==
    [][\A w \in Conns :
          StoreItem(w)
              => get_position(StoreNext, file_id[w][1]) = wval[w][1]]_vars

\* C16: one launch enters AudioStream at most once, and the end of the
\* producer's sequence (empty or not) ends the worker.
C16_BoundedReacquire ==
    /\ [](\A w \in Conns : acquired[w] <= 1)
    /\ [][\A w \in Conns : ProducerStop(w) => wstate'[w] = "done"]_vars

\* One worker ended on an empty sequence, another after storing a position;
\* each had entered AudioStream once.
C16_Witness ==
    \E w, x \in Conns :
        /\ wstate[w] = "done" /\ wval[w] = <<>> /\ acquired[w] = 1
        /\ wstate[x] = "done" /\ wval[x] # <<>> /\ acquired[x] = 1

\* C17: at most one worker holds the audio input, only an executing worker
\* holds it, and a worker that has ended holds none.
C17_StreamReleased ==
    /\ Cardinality(stream) <= 1
    /\ stream \subseteq Executing
    /\ \A w \in Terminated : w \notin stream

\* A worker failed by an exception after a set_position; the next worker now
\* holds the input and is in the middle of its own set_position.
C17_Witness ==
    \E w, x \in Conns :
        /\ wstate[w] = "failed" /\ wval[w] # <<>> /\ acquired[w] = 1
        /\ wstate[x] = "set" /\ x \in stream

\* C18: the steps that end a connection's loop leave every worker and the
\* pool's queue as they were, and a worker whose connection has ended can
\* still take its next step (start, yield, store).
C18_WorkerSurvivesClose ==
    /\ [][\A c \in Conns :
             (LoopExit(c) \/ SendFail(c) \/ Return(c))
                 => UNCHANGED <<queue, wstate, wval, wref, stream, acquired>>]_vars
    /\ [](\A w \in Conns :
             (pc[w] \in {"exited", "return", "returned"}) =>
                 /\ (wstate[w] = "queued" /\ Head(queue) = w /\ Executing = {})
                        => ENABLED Dispatch(w)
                 /\ wstate[w] = "start" => ENABLED WorkerSetup(w)
                 /\ wstate[w] = "iter" => \A b \in Beats : ENABLED ProducerYield(w, b)
                 /\ wstate[w] = "set" => ENABLED StoreItem(w))

\* The only connection has failed a send, reset the store and returned; its
\* worker has since stored a position, which the store now holds.
C18_Witness ==
    \E w \in Conns :
        /\ \A x \in Conns \ {w} : pc[x] = "idle"
        /\ pc[w] = "returned"
        /\ wstate[w] = "iter" /\ wval[w] # <<>>
        /\ file_id[w][1] \in DOMAIN Store
        /\ Store[file_id[w][1]] = wval[w][1]

\* launches submitted and no longer waiting in the queue
Started == {w \in Conns : wstate[w] \notin {"none", "queued"}}

\* C19: at most one worker executes at any instant; a worker starts only when
\* every worker submitted before it has terminated; and while a worker waits
\* in the queue its session's Publishers read and send only the default 0.
C19_OneSlotQueue ==
    /\ [](Cardinality(Executing) <= 1)
    /\ [][\A w \in Conns : Dispatch(w) => Started \subseteq Terminated]_vars
    /\ [](\A w \in Conns : \A c \in Conns :
             (wstate[w] = "queued" /\ file_id[c] = file_id[w])
                 => cur[c] \in {<<>>, <<Default>>})

\* C11: after any sequence of direct calls, get_position(s) is the value of
\* the latest set_position(s, .) not followed by remove_position(s) or
\* reset(), and the default otherwise; right after set_position(s, v) it is v.
C11_LastWriteRead ==
    /\ \A s \in Sessions :
           get_position(Store, s) = IF expect[s] = <<>> THEN Default ELSE expect[s][1]
    /\ (call # <<>> /\ call[1] = "set_position")
           => get_position(Store, call[2]) = call[3]

\* Key s was set and then dropped by reset() (the dict returned earlier by
\* get_all_positions still shows it); key t has just been set to 1.
C11_Witness ==
    \E s, t \in Sessions :
        /\ s # t
        /\ snapshot # <<>> /\ snapshot[1] # positions
        /\ s \in DOMAIN heap[snapshot[1]]
        /\ expect[s] = <<>> /\ get_position(Store, s) = Default
        /\ call = <<"set_position", t, 1>> /\ get_position(Store, t) = 1

\* C12: get_position of a key with no entry returns the default 0 and leaves
\* the store as it was: no entry is created.
C12_AbsentGivesDefault ==
    [][\A s \in Sessions :
          (ApiGet(s) /\ s \notin DOMAIN Store)
              => /\ call'[3] = Default
                 /\ heap' = heap /\ positions' = positions
                 /\ s \notin DOMAIN StoreNext]_vars

\* get_position has just returned 0 for a key removed by remove_position
\* while another key holds 1.
C12_Witness ==
    \E s, t \in Sessions :
        /\ call = <<"get_position", s, Default>>
        /\ s \notin DOMAIN Store
        /\ t \in DOMAIN Store /\ Store[t] = 1
        /\ expect[s] = <<>>

\* C13: with threads interleaving their set_position calls, each on its own
\* key and with no other call, every key's entry is the last value stored
\* under it, and storing under one key leaves every other key as it was.
C13_WritersIndependent ==
    /\ [](\A s \in Sessions :
             IF expect[s] = <<>>
                 THEN s \notin DOMAIN Store
                 ELSE s \in DOMAIN Store /\ Store[s] = expect[s][1])
    /\ [][\A w \in Conns :
             WriterStore(w) =>
                 \A k \in Sessions \ {file_id[w][1]} :
                     /\ (k \in DOMAIN StoreNext) = (k \in DOMAIN Store)
                     /\ k \in DOMAIN Store => StoreNext[k] = Store[k]]_vars

\* Two threads with different keys: one has stored 1 and is in the middle of
\* its next call, the other has stored 0 after it.
C13_Witness ==
    \E w, x \in Conns :
        /\ file_id[w] # file_id[x]
        /\ wref[w] # <<>> /\ wval[w] = <<0>>
        /\ expect[file_id[w][1]] = <<1>> /\ Store[file_id[w][1]] = 1
        /\ wref[x] = <<>> /\ expect[file_id[x][1]] = <<0>> /\ Store[file_id[x][1]] = 0

\* C14: remove_position of a key with no entry changes nothing; of a key with
\* an entry it deletes that entry and no other; doing it twice is as doing it
\* once.
C14_RemoveExact ==
    /\ [][\A s \in Sessions :
             ApiRemove(s) =>
                 /\ positions' = positions
                 /\ s \notin DOMAIN Store => heap' = heap
                 /\ DOMAIN StoreNext = (DOMAIN Store) \ {s}
                 /\ \A k \in DOMAIN StoreNext : StoreNext[k] = Store[k]]_vars
    /\ [][\A s \in Sessions :
             (ApiRemove(s) /\ call = <<"remove_position", s>>) => heap' = heap]_vars

\* remove_position has just deleted one of two entries; the other is still 1.
C14_Witness ==
    \E s, t \in Sessions :
        /\ call = <<"remove_position", s>>
        /\ s \notin DOMAIN Store
        /\ t \in DOMAIN Store /\ Store[t] = 1
        /\ snapshot = <<positions>>

\* C15: a set_position or remove_position after get_all_positions leaves the
\* mapping that call returned as it was.
C15_SnapshotIsCopy ==
    [][\A s \in Sessions :
          (snapshot # <<>> /\ ((\E v \in Beats : ApiSet(s, v)) \/ ApiRemove(s)))
              => heap'[snapshot[1]] = heap[snapshot[1]]]_vars

====
